---- MODULE Spec2Model ----
(***************************************************************************)
(* State-machine model of the gameplay core of the Frankenstein ritual     *)
(* game: GameFSM (src/src/logic/GameFSM.ts), the RitualLogic functions     *)
(* (src/src/logic/RitualLogic.ts) and the GameController's input and frame *)
(* handling (src/src/logic/GameController.ts).                             *)
(*                                                                         *)
(* Time: a step's timeLimit is held in seconds, as in the source;          *)
(* timeRemaining is held in milliseconds (1000 times the source's value),  *)
(* so that updateTime's "deltaTime / 1000" stays in the integers.          *)
(***************************************************************************)
EXTENDS Integers, Sequences, FiniteSets, TLC

VARIABLES
  stateData,            \* GameFSM.stateData
  emitted,              \* stateChange events handed to the listeners by the last operation
  lastOp,               \* the last operation called, its arguments and its return value
  run,                  \* completions since a clean START_RITUAL_SEQUENCE (-1: none running)
  currentLevel,         \* GameController.currentLevel
  animationDelayActive, \* GameController.animationDelayActive
  timers,               \* pending setTimeout callbacks of the controller, oldest first
  attemptLog,           \* actions accepted as correct since the step index was last 0
  stateChangeCallbacks, \* GameFSM.stateChangeCallbacks, in registration order
  invoked,              \* the callback invocations made by the last operation, in order
  heldSnapshot,         \* the snapshot a reader holds (empty: none handed out yet)
  clock,                \* Date.now()
  lastInputTime,        \* InputManager.lastInputTime
  acceptedAt,           \* per action, when a press of it was last emitted (history)
  inputEvents,          \* actions handed to the input callbacks by the last press
  generated,            \* the last two rituals getRitualForLevel returned, older first
  dpadHit,              \* the last d-pad hit handed to getDpadDirection, and its result
  activeSurgeonAnimation, \* AnimationSystem.activeSurgeonAnimation
  sincePlay             \* the deltaTime of every update since playSurgeonAnimation (history)

fsmVars == <<stateData, emitted, lastOp>>
ctlVars == <<currentLevel, animationDelayActive, timers, attemptLog>>
obsVars == <<stateChangeCallbacks, invoked, heldSnapshot>>
inputVars == <<clock, lastInputTime, acceptedAt, inputEvents>>
ritualVars == <<generated>>
dpadVars == <<dpadHit>>
animVars == <<activeSurgeonAnimation, sincePlay>>
vars ==
  <<stateData, emitted, lastOp, run, currentLevel, animationDelayActive, timers, attemptLog,
    stateChangeCallbacks, invoked, heldSnapshot, clock, lastInputTime, acceptedAt, inputEvents,
    generated, dpadHit, activeSurgeonAnimation, sincePlay>>

(***************************************************************************)
(* Bounds of the model.                                                    *)
(***************************************************************************)
MaxSteps == 2        \* longest ritual handed to the state machine directly
MaxMistakes == 3     \* cap on mistakeCount / golem_madnessLevel
MaxLevel == 2        \* highest level the controller is taken to
MaxVariants == 1     \* action variants per surgical task that getRandomAction may draw
MaxTimers == 2       \* pending animation-delay timers
MaxCallbacks == 2    \* registrations held in stateChangeCallbacks
MaxElapsed == 120    \* milliseconds the clock runs past its start

(***************************************************************************)
(* Enumerations (config/types)                                             *)
(***************************************************************************)
GameState == {"STATE_IDLE", "STATE_RITUAL_STEP", "STATE_MONSTER_MAD", "STATE_ITS_ALIVE"}

EKGState == {"STATE_CALM", "STATE_NERVOUS", "STATE_ANGRY", "STATE_FLATLINE", "STATE_ALIVE"}

InputAction ==
  {"JOYSTICK_UP", "JOYSTICK_DOWN", "JOYSTICK_LEFT", "JOYSTICK_RIGHT",
   "BUTTON_A", "BUTTON_B", "BUTTON_START", "BUTTON_PAUSE",
   "DPAD_UP", "DPAD_DOWN", "DPAD_LEFT", "DPAD_RIGHT"}

\* MISTAKE_THRESHOLDS (config/constants)
THRESHOLD_NERVOUS == 1
THRESHOLD_ANGRY == 3

\* the fallback of "steps[0]?.timeLimit || 5"
FALLBACK_TIME_LIMIT == 5

\* TIMING.INPUT_DEBOUNCE_MS (config/constants)
INPUT_DEBOUNCE_MS == 50

\* a Map without entries
EmptyMap == [k \in {} |-> 0]

\* Date.now() when the InputManager is constructed: milliseconds since 1970, far above the window
StartTimes == {1000}

\* cap on currentStepIndex: ADVANCE_RITUAL_STEP itself has no upper guard
MaxIndex == MaxSteps + 1

\* seconds to the model's milliseconds
SecToMs(s) == s * 1000

(***************************************************************************)
(* Rituals handed to the state machine directly (constructor, loadRitual). *)
(* Zero-step rituals and non-positive time limits are included: the type   *)
(* allows them and the code has branches for them.                         *)
(***************************************************************************)
TestActions == {"BUTTON_A"}

\* step time limits in seconds: negative, zero (falsy in "|| 5"), and two positive ones
TimeLimits == {0 - 1, 0, 1, 2}

RitualLevels == {1, 2}

TestSteps == [correctAction : TestActions, timeLimit : TimeLimits]

\* no step, or a first step followed by like steps
StepSeqs ==
  {<<>>} \cup {[i \in 1..n |-> IF i = 1 THEN f ELSE g] : n \in 1..MaxSteps, f \in TestSteps, g \in TestSteps}

Rituals ==
  [levelNumber : RitualLevels, steps : StepSeqs,
   baseTimeLimit : {10}, timeLimitMultiplier : {100}]

\* elapsed milliseconds handed to updateTime
Deltas == {0, 1000, 3000}

(***************************************************************************)
(* GameFSM                                                                 *)
(***************************************************************************)
\* steps[0]?.timeLimit || 5 : undefined (no step) and 0 are falsy
FirstTimeLimit(ritual) ==
  IF Len(ritual.steps) = 0 THEN FALLBACK_TIME_LIMIT
  ELSE IF ritual.steps[1].timeLimit = 0 THEN FALLBACK_TIME_LIMIT
  ELSE ritual.steps[1].timeLimit

\* constructor
NewGameFSM(initialRitual) ==
  [currentState |-> "STATE_IDLE",
   currentRitual |-> initialRitual,
   currentStepIndex |-> 0,
   mistakeCount |-> 0,
   timeRemaining |-> SecToMs(FirstTimeLimit(initialRitual)),
   golem_current_state |-> "STATE_CALM",
   golem_madnessLevel |-> 0,
   levelNumber |-> initialRitual.levelNumber]

getCurrentState(d) == d.currentState

\* { ...this.stateData }: a copy of the top-level fields (currentRitual is shared)
getStateData(d) == d

validTransitions ==
  [s \in GameState |->
     CASE s = "STATE_IDLE" -> {"STATE_RITUAL_STEP"}
       [] s = "STATE_RITUAL_STEP" -> {"STATE_RITUAL_STEP", "STATE_MONSTER_MAD", "STATE_ITS_ALIVE"}
       [] s = "STATE_MONSTER_MAD" -> {"STATE_RITUAL_STEP", "STATE_IDLE"}
       [] s = "STATE_ITS_ALIVE" -> {"STATE_RITUAL_STEP", "STATE_IDLE"}]

\* mutant: the table is looked up by the target state
isValidTransition_reversed(from, to) ==
  IF to \in GameState THEN from \in validTransitions[to] ELSE FALSE

isValidTransition(from, to) ==
  IF from \in GameState THEN to \in validTransitions[from] ELSE FALSE

\* steps[currentStepIndex] is defined (the source indexes from 0)
HasStepAt(d, i) == i >= 0 /\ i < Len(d.currentRitual.steps)

StepAt(d, i) == d.currentRitual.steps[i + 1]

onStateEnter(d, state) ==
  CASE state = "STATE_IDLE" ->
         [d EXCEPT !.currentStepIndex = 0, !.mistakeCount = 0,
                   !.golem_madnessLevel = 0, !.golem_current_state = "STATE_CALM"]
    [] state = "STATE_RITUAL_STEP" ->
         IF HasStepAt(d, d.currentStepIndex)
         THEN [d EXCEPT !.timeRemaining = SecToMs(StepAt(d, d.currentStepIndex).timeLimit)]
         ELSE d
    [] state = "STATE_MONSTER_MAD" -> [d EXCEPT !.golem_current_state = "STATE_FLATLINE"]
    [] state = "STATE_ITS_ALIVE" -> [d EXCEPT !.golem_current_state = "STATE_ALIVE"]
    [] OTHER -> d

\* the event every registered callback receives: (newState, getStateData())
emitStateChange(d, newState) == <<[newState |-> newState, stateData |-> getStateData(d)]>>

\* mutant: the entry logic runs before the transition is validated
TRANSITION_TO_STATE_enterFirst(d, newState) ==
  IF ~isValidTransition(d.currentState, newState)
  THEN [data |-> onStateEnter(d, newState), ret |-> FALSE, events |-> <<>>]
  ELSE LET entered == onStateEnter([d EXCEPT !.currentState = newState], newState)
       IN [data |-> entered, ret |-> TRUE, events |-> emitStateChange(entered, newState)]

\* result: the data afterwards, the return value, the events emitted
TRANSITION_TO_STATE(d, newState) ==
  IF ~isValidTransition(d.currentState, newState)
  THEN [data |-> d, ret |-> FALSE, events |-> <<>>]
  ELSE LET entered == onStateEnter([d EXCEPT !.currentState = newState], newState)
       IN [data |-> entered, ret |-> TRUE, events |-> emitStateChange(entered, newState)]

\* mutant: the next step inherits the time left over
ADVANCE_RITUAL_STEP_keepTime(d) ==
  LET inc == [d EXCEPT !.currentStepIndex = d.currentStepIndex + 1]
  IN IF inc.currentStepIndex >= Len(inc.currentRitual.steps)
     THEN [data |-> inc, ret |-> FALSE]
     ELSE [data |-> inc, ret |-> TRUE]

ADVANCE_RITUAL_STEP(d) ==
  LET inc == [d EXCEPT !.currentStepIndex = d.currentStepIndex + 1]
  IN IF inc.currentStepIndex >= Len(inc.currentRitual.steps)
     THEN [data |-> inc, ret |-> FALSE]
     ELSE [data |-> [inc EXCEPT !.timeRemaining = SecToMs(StepAt(inc, inc.currentStepIndex).timeLimit)],
           ret |-> TRUE]

\* mutant: the thresholds are compared with ">"
updateGolemState_above(d) ==
  LET madness == d.golem_madnessLevel
  IN IF madness > THRESHOLD_ANGRY THEN [d EXCEPT !.golem_current_state = "STATE_ANGRY"]
     ELSE IF madness > THRESHOLD_NERVOUS THEN [d EXCEPT !.golem_current_state = "STATE_NERVOUS"]
     ELSE [d EXCEPT !.golem_current_state = "STATE_CALM"]

updateGolemState(d) ==
  LET madness == d.golem_madnessLevel
  IN IF madness >= THRESHOLD_ANGRY THEN [d EXCEPT !.golem_current_state = "STATE_ANGRY"]
     ELSE IF madness >= THRESHOLD_NERVOUS THEN [d EXCEPT !.golem_current_state = "STATE_NERVOUS"]
     ELSE [d EXCEPT !.golem_current_state = "STATE_CALM"]

\* mutant: the madness level is left as it was
REGISTER_MISTAKE_countOnly(d) ==
  updateGolemState([d EXCEPT !.mistakeCount = d.mistakeCount + 1])

REGISTER_MISTAKE(d) ==
  updateGolemState([d EXCEPT !.mistakeCount = d.mistakeCount + 1,
                             !.golem_madnessLevel = d.golem_madnessLevel + 1])

\* mutant: a timeout registers a mistake
updateTime_counting(d, deltaTime) ==
  IF d.currentState # "STATE_RITUAL_STEP"
  THEN [data |-> d, events |-> <<>>]
  ELSE LET dec == [d EXCEPT !.timeRemaining = d.timeRemaining - deltaTime]
       IN IF dec.timeRemaining <= 0
          THEN LET t == TRANSITION_TO_STATE(REGISTER_MISTAKE([dec EXCEPT !.timeRemaining = 0]),
                                            "STATE_MONSTER_MAD")
               IN [data |-> t.data, events |-> t.events]
          ELSE [data |-> dec, events |-> <<>>]

\* mutant: the timer runs in every state
updateTime_anyState(d, deltaTime) ==
  LET dec == [d EXCEPT !.timeRemaining = d.timeRemaining - deltaTime]
  IN IF dec.timeRemaining <= 0
     THEN LET t == TRANSITION_TO_STATE([dec EXCEPT !.timeRemaining = 0], "STATE_MONSTER_MAD")
          IN [data |-> t.data, events |-> t.events]
     ELSE [data |-> dec, events |-> <<>>]

\* mutant: the timeout test is "< 0"
updateTime_strict(d, deltaTime) ==
  IF d.currentState # "STATE_RITUAL_STEP"
  THEN [data |-> d, events |-> <<>>]
  ELSE LET dec == [d EXCEPT !.timeRemaining = d.timeRemaining - deltaTime]
       IN IF dec.timeRemaining < 0
          THEN LET t == TRANSITION_TO_STATE([dec EXCEPT !.timeRemaining = 0], "STATE_MONSTER_MAD")
               IN [data |-> t.data, events |-> t.events]
          ELSE [data |-> dec, events |-> <<>>]

\* deltaTime in milliseconds; result: the data afterwards and the events emitted
updateTime(d, deltaTime) ==
  IF d.currentState # "STATE_RITUAL_STEP"
  THEN [data |-> d, events |-> <<>>]
  ELSE LET dec == [d EXCEPT !.timeRemaining = d.timeRemaining - deltaTime]
       IN IF dec.timeRemaining <= 0
          THEN LET t == TRANSITION_TO_STATE([dec EXCEPT !.timeRemaining = 0], "STATE_MONSTER_MAD")
               IN [data |-> t.data, events |-> t.events]
          ELSE [data |-> dec, events |-> <<>>]

\* mutant: loading a ritual leaves levelNumber as it was
loadRitual_keepLevel(d, ritual) ==
  [d EXCEPT !.currentRitual = ritual,
            !.currentStepIndex = 0,
            !.timeRemaining = SecToMs(FirstTimeLimit(ritual))]

\* mutant: loading a ritual also clears the mistake counters
loadRitual_clearing(d, ritual) ==
  [d EXCEPT !.currentRitual = ritual,
            !.currentStepIndex = 0,
            !.mistakeCount = 0,
            !.golem_madnessLevel = 0,
            !.levelNumber = ritual.levelNumber,
            !.timeRemaining = SecToMs(FirstTimeLimit(ritual))]

loadRitual(d, ritual) ==
  [d EXCEPT !.currentRitual = ritual,
            !.currentStepIndex = 0,
            !.levelNumber = ritual.levelNumber,
            !.timeRemaining = SecToMs(FirstTimeLimit(ritual))]

\* mutant: the retry reset also puts the machine into RITUAL_STEP
resetToFirstStep_entering(d) ==
  [d EXCEPT !.currentState = "STATE_RITUAL_STEP",
            !.currentStepIndex = 0,
            !.mistakeCount = 0,
            !.golem_madnessLevel = 0,
            !.golem_current_state = "STATE_CALM",
            !.timeRemaining = SecToMs(FirstTimeLimit(d.currentRitual))]

\* mutant: the retry reset leaves the mistake counters as they are
resetToFirstStep_keepCounters(d) ==
  [d EXCEPT !.currentStepIndex = 0,
            !.golem_current_state = "STATE_CALM",
            !.timeRemaining = SecToMs(FirstTimeLimit(d.currentRitual))]

resetToFirstStep(d) ==
  [d EXCEPT !.currentStepIndex = 0,
            !.mistakeCount = 0,
            !.golem_madnessLevel = 0,
            !.golem_current_state = "STATE_CALM",
            !.timeRemaining = SecToMs(FirstTimeLimit(d.currentRitual))]

\* steps[currentStepIndex] exists
hasCurrentStep(d) == HasStepAt(d, d.currentStepIndex)

getCurrentStep(d) == StepAt(d, d.currentStepIndex)

isRitualComplete(d) == d.currentStepIndex >= Len(d.currentRitual.steps)

(***************************************************************************)
(* The state machine's public operations, called in any order.             *)
(***************************************************************************)
\* the ritual argument recorded for operations that take none
NoRitual == [levelNumber |-> 0, steps |-> <<>>, baseTimeLimit |-> 0, timeLimitMultiplier |-> 0]

\* lastOp: the operation, the state it was called in, its arguments, its return value
Op(name, to, delta, ret) ==
  [op |-> name, from |-> stateData.currentState, to |-> to, delta |-> delta,
   ret |-> ret, action |-> "-", ritual |-> NoRitual]

OpInput(action) ==
  [op |-> "handleInput", from |-> stateData.currentState, to |-> "-", delta |-> 0,
   ret |-> TRUE, action |-> action, ritual |-> NoRitual]

OpNew ==
  [op |-> "new", from |-> "-", to |-> "-", delta |-> 0, ret |-> TRUE, action |-> "-",
   ritual |-> NoRitual]

\* no d-pad hit handled yet
NoHit == [x |-> 0, y |-> 0, point |-> FALSE, direction |-> "-"]

\* AnimationSystem constructor: activeSurgeonAnimation = null
NoAnimation == [key |-> "null", currentFrame |-> 0, elapsedTime |-> 0, isComplete |-> FALSE]

\* GameFSM constructor: no callback registered; no snapshot handed out yet
NoObservers ==
  /\ stateChangeCallbacks = <<>>
  /\ invoked = <<>>
  /\ heldSnapshot = <<>>

\* InputManager constructor: lastInputTime = new Map()
NewInputManager ==
  /\ clock \in StartTimes
  /\ lastInputTime = EmptyMap
  /\ acceptedAt = EmptyMap
  /\ inputEvents = <<>>

Init ==
  /\ \E r \in Rituals : stateData = NewGameFSM(r)
  /\ emitted = <<>>
  /\ lastOp = OpNew
  /\ run = 0 - 1
  /\ currentLevel = 1
  /\ animationDelayActive = FALSE
  /\ timers = <<>>
  /\ attemptLog = <<>>
  /\ NoObservers
  /\ NewInputManager
  /\ generated = <<>>
  /\ dpadHit = NoHit
  /\ activeSurgeonAnimation = NoAnimation
  /\ sincePlay = <<>>

Call_TRANSITION_TO_STATE ==
  \E s \in GameState :
    LET t == TRANSITION_TO_STATE(stateData, s)
    IN /\ stateData' = t.data
       /\ emitted' = t.events
       /\ lastOp' = Op("TRANSITION_TO_STATE", s, 0, t.ret)
       /\ UNCHANGED <<run, ctlVars, obsVars, inputVars, ritualVars, dpadVars, animVars>>

Call_ADVANCE_RITUAL_STEP ==
  /\ stateData.currentStepIndex < MaxIndex
  /\ LET a == ADVANCE_RITUAL_STEP(stateData)
     IN /\ stateData' = a.data
        /\ emitted' = <<>>
        /\ lastOp' = Op("ADVANCE_RITUAL_STEP", "-", 0, a.ret)
  /\ UNCHANGED <<run, ctlVars, obsVars, inputVars, ritualVars, dpadVars, animVars>>

Call_REGISTER_MISTAKE ==
  /\ stateData.mistakeCount < MaxMistakes
  /\ stateData' = REGISTER_MISTAKE(stateData)
  /\ emitted' = <<>>
  /\ lastOp' = Op("REGISTER_MISTAKE", "-", 0, TRUE)
  /\ UNCHANGED <<run, ctlVars, obsVars, inputVars, ritualVars, dpadVars, animVars>>

Call_updateTime ==
  \E delta \in Deltas :
    LET u == updateTime(stateData, delta)
    IN /\ stateData' = u.data
       /\ emitted' = u.events
       /\ lastOp' = Op("updateTime", "-", delta, TRUE)
       /\ UNCHANGED <<run, ctlVars, obsVars, inputVars, ritualVars, dpadVars, animVars>>

Call_resetToFirstStep ==
  /\ stateData' = resetToFirstStep(stateData)
  /\ emitted' = <<>>
  /\ lastOp' = Op("resetToFirstStep", "-", 0, TRUE)
  /\ UNCHANGED <<run, ctlVars, obsVars, inputVars, ritualVars, dpadVars, animVars>>

Call_loadRitual ==
  \E r \in Rituals :
    /\ stateData' = loadRitual(stateData, r)
    /\ emitted' = <<>>
    /\ lastOp' = [Op("loadRitual", "-", 0, TRUE) EXCEPT !.ritual = r]
    /\ UNCHANGED <<run, ctlVars, obsVars, inputVars, ritualVars, dpadVars, animVars>>

Next ==
  \/ Call_TRANSITION_TO_STATE
  \/ Call_ADVANCE_RITUAL_STEP
  \/ Call_REGISTER_MISTAKE
  \/ Call_updateTime
  \/ Call_resetToFirstStep
  \/ Call_loadRitual

Spec == Init /\ [][Next]_vars

(***************************************************************************)
(* RitualLogic: each function's result is the data afterwards and the      *)
(* stateChange events emitted on the way.                                  *)
(***************************************************************************)
START_RITUAL_SEQUENCE(d) ==
  LET t == TRANSITION_TO_STATE(d, "STATE_RITUAL_STEP")
  IN [data |-> t.data, events |-> t.events]

VALIDATE_RITUAL_ACTION(action, expectedAction) == action = expectedAction

\* mutant: the test of ADVANCE_RITUAL_STEP's result is inverted
COMPLETE_RITUAL_STEP_inverted(d) ==
  LET a == ADVANCE_RITUAL_STEP(d)
  IN IF a.ret
     THEN LET t == TRANSITION_TO_STATE(a.data, "STATE_ITS_ALIVE")
          IN [data |-> t.data, events |-> t.events]
     ELSE [data |-> a.data, events |-> <<>>]

COMPLETE_RITUAL_STEP(d) ==
  LET a == ADVANCE_RITUAL_STEP(d)
  IN IF ~a.ret
     THEN LET t == TRANSITION_TO_STATE(a.data, "STATE_ITS_ALIVE")
          IN [data |-> t.data, events |-> t.events]
     ELSE [data |-> a.data, events |-> <<>>]

\* mutant: the transition is made before the mistake is registered
HANDLE_RITUAL_FAILURE_swapped(d) ==
  LET t == TRANSITION_TO_STATE(d, "STATE_MONSTER_MAD")
  IN [data |-> REGISTER_MISTAKE(t.data), events |-> t.events]

HANDLE_RITUAL_FAILURE(d) ==
  LET t == TRANSITION_TO_STATE(REGISTER_MISTAKE(d), "STATE_MONSTER_MAD")
  IN [data |-> t.data, events |-> t.events]

RETRY_RITUAL(d) ==
  LET t == TRANSITION_TO_STATE(resetToFirstStep(d), "STATE_RITUAL_STEP")
  IN [data |-> t.data, events |-> t.events]

START_NEW_RITUAL(d, ritual) == START_RITUAL_SEQUENCE(loadRitual(d, ritual))

(***************************************************************************)
(* The RitualLogic functions and updateTime, called in any order.          *)
(* run counts the COMPLETE_RITUAL_STEP calls that followed a               *)
(* START_RITUAL_SEQUENCE made in IDLE at step 0 with nothing in between    *)
(* but updateTime calls that did not time out; -1 when no such run is on.  *)
(***************************************************************************)
NoRun == 0 - 1

Call_START_RITUAL_SEQUENCE ==
  LET r == START_RITUAL_SEQUENCE(stateData)
  IN /\ stateData' = r.data
     /\ emitted' = r.events
     /\ lastOp' = Op("START_RITUAL_SEQUENCE", "-", 0, TRUE)
     /\ run' = IF /\ stateData.currentState = "STATE_IDLE"
                  /\ stateData.currentStepIndex = 0
                  /\ Len(stateData.currentRitual.steps) >= 1
               THEN 0 ELSE NoRun
     /\ UNCHANGED <<ctlVars, obsVars, inputVars, ritualVars, dpadVars, animVars>>

Call_COMPLETE_RITUAL_STEP ==
  /\ stateData.currentStepIndex < MaxIndex
  /\ LET r == COMPLETE_RITUAL_STEP(stateData)
     IN /\ stateData' = r.data
        /\ emitted' = r.events
  /\ lastOp' = Op("COMPLETE_RITUAL_STEP", "-", 0, TRUE)
  /\ run' = IF run >= 0 /\ run < Len(stateData.currentRitual.steps) THEN run + 1 ELSE NoRun
  /\ UNCHANGED <<ctlVars, obsVars, inputVars, ritualVars, dpadVars, animVars>>

Call_HANDLE_RITUAL_FAILURE ==
  /\ stateData.mistakeCount < MaxMistakes
  /\ LET r == HANDLE_RITUAL_FAILURE(stateData)
     IN /\ stateData' = r.data
        /\ emitted' = r.events
  /\ lastOp' = Op("HANDLE_RITUAL_FAILURE", "-", 0, TRUE)
  /\ run' = NoRun
  /\ UNCHANGED <<ctlVars, obsVars, inputVars, ritualVars, dpadVars, animVars>>

Call_RETRY_RITUAL ==
  LET r == RETRY_RITUAL(stateData)
  IN /\ stateData' = r.data
     /\ emitted' = r.events
     /\ lastOp' = Op("RETRY_RITUAL", "-", 0, TRUE)
     /\ run' = NoRun
     /\ UNCHANGED <<ctlVars, obsVars, inputVars, ritualVars, dpadVars, animVars>>

Call_START_NEW_RITUAL ==
  \E ritual \in Rituals :
    LET r == START_NEW_RITUAL(stateData, ritual)
    IN /\ stateData' = r.data
       /\ emitted' = r.events
       /\ lastOp' = Op("START_NEW_RITUAL", "-", 0, TRUE)
       /\ run' = NoRun
       /\ UNCHANGED <<ctlVars, obsVars, inputVars, ritualVars, dpadVars, animVars>>

Logic_updateTime ==
  \E delta \in Deltas :
    LET u == updateTime(stateData, delta)
    IN /\ stateData' = u.data
       /\ emitted' = u.events
       /\ lastOp' = Op("updateTime", "-", delta, TRUE)
       /\ run' = IF u.events = <<>> THEN run ELSE NoRun
       /\ UNCHANGED <<ctlVars, obsVars, inputVars, ritualVars, dpadVars, animVars>>

NextLogic ==
  \/ Call_START_RITUAL_SEQUENCE
  \/ Call_COMPLETE_RITUAL_STEP
  \/ Call_HANDLE_RITUAL_FAILURE
  \/ Call_RETRY_RITUAL
  \/ Call_START_NEW_RITUAL
  \/ Logic_updateTime

SpecLogic == Init /\ [][NextLogic]_vars

(***************************************************************************)
(* config/rituals: getRitualForLevel.  Math.random is a choice of the      *)
(* index floor(random * length) for every step.  The multiplier is held in *)
(* percent.                                                                *)
(***************************************************************************)
DISINFECT_ACTIONS == <<"BUTTON_A", "BUTTON_B", "DPAD_UP">>
SLICE_ACTIONS == <<"JOYSTICK_UP", "JOYSTICK_DOWN", "JOYSTICK_LEFT", "JOYSTICK_RIGHT">>
REMOVE_ACTIONS == <<"BUTTON_B", "BUTTON_A", "DPAD_DOWN">>
CONNECT_ACTIONS == <<"DPAD_RIGHT", "DPAD_LEFT", "JOYSTICK_RIGHT", "JOYSTICK_LEFT">>
SEW_ACTIONS == <<"JOYSTICK_DOWN", "JOYSTICK_UP", "DPAD_DOWN", "DPAD_UP">>
CLEAN_ACTIONS == <<"DPAD_LEFT", "DPAD_RIGHT", "JOYSTICK_LEFT", "JOYSTICK_RIGHT">>

BASE_STEP_ACTIONS ==
  <<DISINFECT_ACTIONS, SLICE_ACTIONS, REMOVE_ACTIONS, CONNECT_ACTIONS, SEW_ACTIONS>>

BASE_TIME_LIMIT == 10
EXTRA_STEP_BASE_TIME == 8
MIN_STEP_TIME == 3
TIME_REDUCTION_PCT == 5
MIN_MULTIPLIER_PCT == 60
EXTRA_STEP_EVERY == 3

Max(a, b) == IF a >= b THEN a ELSE b

Min(a, b) == IF a <= b THEN a ELSE b

\* actions[Math.floor(Math.random() * actions.length)], r the index drawn
getRandomAction(actions, r) == actions[r + 1]

\* Math.max(3, Math.floor(base * multiplier))
ScaledTimeLimit(base, multiplierPct) == Max(MIN_STEP_TIME, (base * multiplierPct) \div 100)

extraStepsCount_everyLevel(levelNumber) == levelNumber - 1

extraStepsCount(levelNumber) == (levelNumber - 1) \div EXTRA_STEP_EVERY

StepCount(levelNumber) == Len(BASE_STEP_ACTIONS) + extraStepsCount(levelNumber)

\* the action table of the step at position i (1-based)
StepActionTable(i) == IF i <= Len(BASE_STEP_ACTIONS) THEN BASE_STEP_ACTIONS[i] ELSE CLEAN_ACTIONS

\* rnd[i]: the index Math.random gave for the step at position i
generateVariedRitual(levelNumber, baseTimeLimit, timeLimitMultiplier, rnd) ==
  [levelNumber |-> levelNumber,
   baseTimeLimit |-> baseTimeLimit,
   timeLimitMultiplier |-> timeLimitMultiplier,
   steps |-> [i \in 1..StepCount(levelNumber) |->
                [correctAction |-> getRandomAction(StepActionTable(i), rnd[i]),
                 timeLimit |-> IF i <= Len(BASE_STEP_ACTIONS)
                               THEN ScaledTimeLimit(baseTimeLimit, timeLimitMultiplier)
                               ELSE ScaledTimeLimit(EXTRA_STEP_BASE_TIME, timeLimitMultiplier)]]]

getRitualForLevel_easing(levelNumber, rnd) ==
  LET timeReduction == 100 + TIME_REDUCTION_PCT * (levelNumber - 1)
      timeLimitMultiplier == Max(MIN_MULTIPLIER_PCT, timeReduction)
  IN generateVariedRitual(levelNumber, BASE_TIME_LIMIT, timeLimitMultiplier, rnd)

getRitualForLevel(levelNumber, rnd) ==
  LET timeReduction == 100 - TIME_REDUCTION_PCT * (levelNumber - 1)
      timeLimitMultiplier == Max(MIN_MULTIPLIER_PCT, timeReduction)
  IN generateVariedRitual(levelNumber, BASE_TIME_LIMIT, timeLimitMultiplier, rnd)

\* the draws of Math.random explored for a ritual of the level
RandomDraws(levelNumber) ==
  {rnd \in [1..StepCount(levelNumber) -> 0..(MaxVariants - 1)] :
     \A i \in 1..StepCount(levelNumber) : rnd[i] < Len(StepActionTable(i))}

RitualsForLevel(levelNumber) ==
  {getRitualForLevel(levelNumber, rnd) : rnd \in RandomDraws(levelNumber)}

(***************************************************************************)
(* GameController.  c is the controller's state: its state machine's data, *)
(* currentLevel, animationDelayActive and the pending setTimeout callbacks *)
(* (all of 2000 ms, so they run in the order they were scheduled); events  *)
(* are the stateChange events of the call, log the actions accepted as     *)
(* correct since the step index was last 0.                                *)
(***************************************************************************)
Ctl(d, level, delay, pending, events, log) ==
  [d |-> d, currentLevel |-> level, animationDelayActive |-> delay,
   timers |-> pending, events |-> events, log |-> log]

\* the listener the constructor registers with fsm.on('stateChange')
triggerLevelComplete(c) ==
  [c EXCEPT !.animationDelayActive = TRUE, !.timers = Append(c.timers, "levelComplete")]

triggerMonsterMad(c) ==
  [c EXCEPT !.animationDelayActive = TRUE, !.timers = Append(c.timers, "monsterMad")]

onStateChange(c, newState) ==
  IF newState = "STATE_ITS_ALIVE" THEN triggerLevelComplete(c)
  ELSE IF newState = "STATE_MONSTER_MAD" THEN triggerMonsterMad(c)
  ELSE c

\* the state machine's result r = [data, events] taken into the controller;
\* a call emits at most one event
Notify(c, r) ==
  LET c1 == [c EXCEPT !.d = r.data, !.events = c.events \o r.events]
  IN IF r.events = <<>> THEN c1 ELSE onStateChange(c1, r.events[1].newState)

\* mutant: any action is accepted while a step is current
validateAction_any(c, action) == hasCurrentStep(c.d)

validateAction(c, action) ==
  IF ~hasCurrentStep(c.d) THEN FALSE
  ELSE VALIDATE_RITUAL_ACTION(action, getCurrentStep(c.d).correctAction)

\* mutant: the step is advanced without the RitualLogic completion
triggerCorrectFeedback_advanceOnly(c) ==
  IF ~hasCurrentStep(c.d) THEN c
  ELSE Notify([c EXCEPT !.log = Append(c.log, getCurrentStep(c.d).correctAction)],
              [data |-> ADVANCE_RITUAL_STEP(c.d).data, events |-> <<>>])

triggerCorrectFeedback(c) ==
  IF ~hasCurrentStep(c.d) THEN c
  ELSE Notify([c EXCEPT !.log = Append(c.log, getCurrentStep(c.d).correctAction)],
              COMPLETE_RITUAL_STEP(c.d))

triggerIncorrectFeedback(c) == Notify(c, HANDLE_RITUAL_FAILURE(c.d))

\* ritual: what getRitualForLevel(levelNumber) returned
startLevel(c, levelNumber, ritual) ==
  LET c1 == Notify([c EXCEPT !.currentLevel = levelNumber, !.log = <<>>],
                   START_NEW_RITUAL(c.d, ritual))
  IN [c1 EXCEPT !.animationDelayActive = FALSE]

\* mutant: the controller's level is not incremented
completeLevel_sameLevel(c, ritual) == startLevel(c, c.currentLevel, ritual)

completeLevel(c, ritual) == startLevel(c, c.currentLevel + 1, ritual)

\* mutant: the retry goes back to RITUAL_STEP without resetting
retry_noReset(c) ==
  LET t == TRANSITION_TO_STATE([c.d EXCEPT !.currentStepIndex = 0], "STATE_RITUAL_STEP")
  IN Notify([c EXCEPT !.log = <<>>], [data |-> t.data, events |-> t.events])

retry(c) == Notify([c EXCEPT !.log = <<>>], RETRY_RITUAL(c.d))

\* the level whose ritual a BUTTON_START in this state asks getRitualForLevel for
LevelToStart(c) ==
  IF getCurrentState(c.d) = "STATE_ITS_ALIVE" THEN c.currentLevel + 1 ELSE c.currentLevel

\* mutant: BUTTON_PAUSE is ignored while a step is open
handleInput_pauseIgnored(c, action, ritual) ==
  LET state == getCurrentState(c.d)
  IN IF c.animationDelayActive /\ action # "BUTTON_START" THEN c
     ELSE CASE state = "STATE_IDLE" ->
                 IF action = "BUTTON_START" THEN startLevel(c, c.currentLevel, ritual) ELSE c
            [] state = "STATE_RITUAL_STEP" ->
                 IF action = "BUTTON_PAUSE" THEN c
                 ELSE IF validateAction(c, action)
                 THEN triggerCorrectFeedback(c)
                 ELSE triggerIncorrectFeedback(c)
            [] state = "STATE_MONSTER_MAD" ->
                 IF action = "BUTTON_START" THEN retry(c) ELSE c
            [] state = "STATE_ITS_ALIVE" ->
                 IF action = "BUTTON_START" THEN completeLevel(c, ritual) ELSE c
            [] OTHER -> c

\* mutant: in MONSTER_MAD any action retries
handleInput_retryOnAny(c, action, ritual) ==
  LET state == getCurrentState(c.d)
  IN IF c.animationDelayActive /\ action # "BUTTON_START" THEN c
     ELSE CASE state = "STATE_IDLE" ->
                 IF action = "BUTTON_START" THEN startLevel(c, c.currentLevel, ritual) ELSE c
            [] state = "STATE_RITUAL_STEP" ->
                 IF validateAction(c, action)
                 THEN triggerCorrectFeedback(c)
                 ELSE triggerIncorrectFeedback(c)
            [] state = "STATE_MONSTER_MAD" -> retry(c)
            [] state = "STATE_ITS_ALIVE" ->
                 IF action = "BUTTON_START" THEN completeLevel(c, ritual) ELSE c
            [] OTHER -> c

handleInput(c, action, ritual) ==
  LET state == getCurrentState(c.d)
  IN IF c.animationDelayActive /\ action # "BUTTON_START" THEN c
     ELSE CASE state = "STATE_IDLE" ->
                 IF action = "BUTTON_START" THEN startLevel(c, c.currentLevel, ritual) ELSE c
            [] state = "STATE_RITUAL_STEP" ->
                 IF validateAction(c, action)
                 THEN triggerCorrectFeedback(c)
                 ELSE triggerIncorrectFeedback(c)
            [] state = "STATE_MONSTER_MAD" ->
                 IF action = "BUTTON_START" THEN retry(c) ELSE c
            [] state = "STATE_ITS_ALIVE" ->
                 IF action = "BUTTON_START" THEN completeLevel(c, ritual) ELSE c
            [] OTHER -> c

\* mutant: the frame's elapsed time does not reach the state machine
update_frozen(c, deltaTime) == Notify(c, updateTime(c.d, 0))

\* update: one frame of deltaTime milliseconds
update(c, deltaTime) == Notify(c, updateTime(c.d, deltaTime))

\* a setTimeout callback runs: both kinds clear the flag
timerCallback(c) == [c EXCEPT !.animationDelayActive = FALSE, !.timers = Tail(c.timers)]

(***************************************************************************)
(* The controller under inputs, frames and timer callbacks.                *)
(***************************************************************************)
\* elapsed milliseconds between two frames
FrameDeltas == {0, 4000, 11000}

CtlNow == Ctl(stateData, currentLevel, animationDelayActive, timers, <<>>, attemptLog)

CtlBecomes(c) ==
  /\ stateData' = c.d
  /\ emitted' = c.events
  /\ currentLevel' = c.currentLevel
  /\ animationDelayActive' = c.animationDelayActive
  /\ timers' = c.timers
  /\ attemptLog' = c.log

InitCtl ==
  /\ \E ritual \in RitualsForLevel(1) : stateData = NewGameFSM(ritual)
  /\ emitted = <<>>
  /\ lastOp = OpNew
  /\ run = NoRun
  /\ currentLevel = 1
  /\ animationDelayActive = FALSE
  /\ timers = <<>>
  /\ attemptLog = <<>>
  /\ stateChangeCallbacks = <<"controller">>
  /\ invoked = <<>>
  /\ heldSnapshot = <<>>
  /\ NewInputManager
  /\ generated = <<>>
  /\ dpadHit = NoHit
  /\ activeSurgeonAnimation = NoAnimation
  /\ sincePlay = <<>>

\* handleInput calls getRitualForLevel only for a BUTTON_START that starts a level
DrawnRituals(c, action) ==
  IF action = "BUTTON_START" /\ getCurrentState(c.d) \in {"STATE_IDLE", "STATE_ITS_ALIVE"}
  THEN RitualsForLevel(LevelToStart(c))
  ELSE {c.d.currentRitual}

Ctl_handleInput ==
  \E action \in InputAction :
    \E ritual \in DrawnRituals(CtlNow, action) :
      LET c == handleInput(CtlNow, action, ritual)
      IN /\ c.currentLevel <= MaxLevel
         /\ Len(c.timers) <= MaxTimers
         /\ CtlBecomes(c)
         /\ lastOp' = OpInput(action)
         /\ UNCHANGED <<run, obsVars, inputVars, ritualVars, dpadVars, animVars>>

Ctl_update ==
  \E deltaTime \in FrameDeltas :
    LET c == update(CtlNow, deltaTime)
    IN /\ Len(c.timers) <= MaxTimers
       /\ CtlBecomes(c)
       /\ lastOp' = Op("update", "-", deltaTime, TRUE)
       /\ UNCHANGED <<run, obsVars, inputVars, ritualVars, dpadVars, animVars>>

Ctl_timerCallback ==
  /\ timers # <<>>
  /\ CtlBecomes(timerCallback(CtlNow))
  /\ lastOp' = Op("timerCallback", "-", 0, TRUE)
  /\ UNCHANGED <<run, obsVars, inputVars, ritualVars, dpadVars, animVars>>

NextCtl ==
  \/ Ctl_handleInput
  \/ Ctl_update
  \/ Ctl_timerCallback

SpecCtl == InitCtl /\ [][NextCtl]_vars

(***************************************************************************)
(* getRitualForLevel called for any level, one call after another.  The    *)
(* time limits and the number of steps do not depend on what Math.random   *)
(* gives, so the draws explored here are the uniform ones only.            *)
(***************************************************************************)
MaxRitualLevel == 10    \* highest level a ritual is generated for

UniformDraws(levelNumber) ==
  {rnd \in RandomDraws(levelNumber) :
     \A i, j \in 1..StepCount(levelNumber) : rnd[i] = rnd[j]}

Rituals_getRitualForLevel ==
  \E levelNumber \in 1..MaxRitualLevel :
    \E rnd \in UniformDraws(levelNumber) :
      LET ritual == getRitualForLevel(levelNumber, rnd)
      IN /\ generated' = IF generated = <<>> THEN <<ritual>>
                         ELSE <<generated[Len(generated)], ritual>>
         /\ lastOp' = [Op("getRitualForLevel", "-", 0, TRUE) EXCEPT !.ritual = ritual]
         /\ UNCHANGED <<stateData, emitted, run, ctlVars, obsVars, inputVars, dpadVars, animVars>>

NextRituals == Rituals_getRitualForLevel

SpecRituals == InitCtl /\ [][NextRituals]_vars

(***************************************************************************)
(* The controller with its scheduling: frames and timer callbacks keep     *)
(* coming.  Whether a step times out does not depend on which variant of   *)
(* an action Math.random picked, so the rituals drawn are the uniform ones.*)
(***************************************************************************)
UniformRitual(ritual) ==
  \E rnd \in UniformDraws(ritual.levelNumber) :
    ritual = getRitualForLevel(ritual.levelNumber, rnd)

InitCtlLive == InitCtl /\ UniformRitual(stateData.currentRitual)

\* handleInput tells actions apart only by comparing them with BUTTON_START and
\* with the current step's correctAction: BUTTON_PAUSE stands for the others
LiveActions ==
  {"BUTTON_START", "BUTTON_PAUSE"}
    \cup (IF hasCurrentStep(stateData) THEN {getCurrentStep(stateData).correctAction} ELSE {})

Live_handleInput ==
  /\ Ctl_handleInput
  /\ lastOp'.action \in LiveActions
  /\ UniformRitual(stateData'.currentRitual)

NextCtlLive ==
  \/ Live_handleInput
  \/ Ctl_update
  \/ Ctl_timerCallback

\* a frame with positive elapsed time
PositiveFrame == Ctl_update /\ lastOp'.delta > 0

\* requestAnimationFrame keeps scheduling update, so frames with positive
\* elapsed time keep coming; a pending setTimeout callback is run by the
\* event loop once its 2000 ms are over
SpecCtlLive ==
  InitCtlLive /\ [][NextCtlLive]_vars /\ WF_vars(PositiveFrame) /\ WF_vars(Ctl_timerCallback)

(***************************************************************************)
(* InputManager.getDpadDirection.  Offsets from the mesh centre are in     *)
(* millimetres (the source has metres), so 0.015 is 15 and the bias 1.2 is *)
(* 120 percent; on the offsets explored the comparisons give what the      *)
(* source's doubles give.                                                  *)
(***************************************************************************)
DPAD_MIN_THRESHOLD == 15
HORIZONTAL_BIAS_PCT == 120

\* Math.abs
Abs(n) == IF n < 0 THEN 0 - n ELSE n

\* relativeX, relativeY of the hits explored
DpadOffsets == {0 - 36, 0 - 30, 0 - 20, 0 - 15, 0 - 10, 0, 10, 15, 20, 30, 36}

\* hasPoint: the mesh carries a lastIntersectionPoint
getDpadDirection(hasPoint, relativeX, relativeY) ==
  IF ~hasPoint THEN "DPAD_UP"
  ELSE IF Abs(relativeX) < DPAD_MIN_THRESHOLD /\ Abs(relativeY) < DPAD_MIN_THRESHOLD
  THEN "DPAD_UP"
  ELSE IF Abs(relativeX) * HORIZONTAL_BIAS_PCT > Abs(relativeY) * 100
  THEN (IF relativeX > 0 THEN "DPAD_RIGHT" ELSE "DPAD_LEFT")
  ELSE (IF relativeY > 0 THEN "DPAD_UP" ELSE "DPAD_DOWN")

Dpad_getDpadDirection ==
  \E hasPoint \in BOOLEAN :
    \E relativeX \in (IF hasPoint THEN DpadOffsets ELSE {0}) :
      \E relativeY \in (IF hasPoint THEN DpadOffsets ELSE {0}) :
        /\ dpadHit' = [x |-> relativeX, y |-> relativeY, point |-> hasPoint,
                       direction |-> getDpadDirection(hasPoint, relativeX, relativeY)]
        /\ lastOp' = Op("getDpadDirection", "-", 0, TRUE)
        /\ UNCHANGED <<stateData, emitted, run, ctlVars, obsVars, inputVars, ritualVars, animVars>>

NextDpad == Dpad_getDpadDirection

SpecDpad == InitCtl /\ [][NextDpad]_vars

(***************************************************************************)
(* AnimationSystem: the surgeon animation.  A frame is recorded by the     *)
(* column of the sprite sheet it shows; a is activeSurgeonAnimation.       *)
(***************************************************************************)
FRAME_ANIMATION_MS == 100
MaxAnimUpdates == 4     \* updates followed after one playSurgeonAnimation

SurgeonKeys ==
  {"idle", "spray_disinfectant", "slice_incision", "remove_organ", "connect_wires",
   "sew_stitches"}

\* defineSurgeonAnimations: this.surgeonAnimations.get(key)
surgeonAnimations(key) ==
  [frames |-> CASE key = "idle" -> <<0>>
                [] key = "spray_disinfectant" -> <<0, 1, 1>>
                [] key = "slice_incision" -> <<0, 2, 2>>
                [] key = "remove_organ" -> <<0, 3, 3>>
                [] key = "connect_wires" -> <<0, 4, 4>>
                [] key = "sew_stitches" -> <<0, 2, 2>>,
   frameDuration |-> FRAME_ANIMATION_MS,
   loop |-> key = "idle"]

playSurgeonAnimation(a, animationKey) ==
  IF animationKey \notin SurgeonKeys THEN a
  ELSE [key |-> animationKey, currentFrame |-> 0, elapsedTime |-> 0, isComplete |-> FALSE]

stopSurgeonAnimation(a) == NoAnimation

\* mutant: the animation is complete as soon as its last frame is shown
AnimationSystem_update_early(a, deltaTime) ==
  IF a = NoAnimation \/ a.isComplete THEN a
  ELSE LET sequence == surgeonAnimations(a.key)
           elapsedTime == a.elapsedTime + deltaTime
       IN IF elapsedTime >= sequence.frameDuration
          THEN IF a.currentFrame + 1 >= Len(sequence.frames) - 1
               THEN IF sequence.loop
                    THEN [a EXCEPT !.elapsedTime = 0, !.currentFrame = 0]
                    ELSE [a EXCEPT !.elapsedTime = 0,
                                   !.currentFrame = Len(sequence.frames) - 1,
                                   !.isComplete = TRUE]
               ELSE [a EXCEPT !.elapsedTime = 0, !.currentFrame = a.currentFrame + 1]
          ELSE [a EXCEPT !.elapsedTime = elapsedTime]

\* update(deltaTime), the surgeon part
AnimationSystem_update(a, deltaTime) ==
  IF a = NoAnimation \/ a.isComplete THEN a
  ELSE LET sequence == surgeonAnimations(a.key)
           elapsedTime == a.elapsedTime + deltaTime
       IN IF elapsedTime >= sequence.frameDuration
          THEN IF a.currentFrame + 1 >= Len(sequence.frames)
               THEN IF sequence.loop
                    THEN [a EXCEPT !.elapsedTime = 0, !.currentFrame = 0]
                    ELSE [a EXCEPT !.elapsedTime = 0,
                                   !.currentFrame = Len(sequence.frames) - 1,
                                   !.isComplete = TRUE]
               ELSE [a EXCEPT !.elapsedTime = 0, !.currentFrame = a.currentFrame + 1]
          ELSE [a EXCEPT !.elapsedTime = elapsedTime]

\* this.activeSurgeonAnimation?.isComplete ?? true
isSurgeonAnimationComplete(a) == IF a = NoAnimation THEN TRUE ELSE a.isComplete

\* the frame handed to the renderer: the sequence it is taken from and its index
getSurgeonFrame(a) ==
  IF a = NoAnimation
  THEN [animationKey |-> "idle", frames |-> surgeonAnimations("idle").frames, index |-> 0]
  ELSE [animationKey |-> "active", frames |-> surgeonAnimations(a.key).frames,
        index |-> a.currentFrame]

\* the keys playSurgeonAnimation is called with, one of them not defined
PlayedKeys == SurgeonKeys \cup {"unknown"}

\* deltaTime of the frames explored
AnimDeltas == {0, 50, 100}

Anim_playSurgeonAnimation ==
  \E animationKey \in PlayedKeys :
    /\ activeSurgeonAnimation' = playSurgeonAnimation(activeSurgeonAnimation, animationKey)
    /\ sincePlay' = IF animationKey \in SurgeonKeys THEN <<>> ELSE sincePlay
    /\ lastOp' = [Op("playSurgeonAnimation", "-", 0, TRUE) EXCEPT !.action = animationKey]
    /\ UNCHANGED <<stateData, emitted, run, ctlVars, obsVars, inputVars, ritualVars, dpadVars>>

Anim_update ==
  \E deltaTime \in AnimDeltas :
    /\ Len(sincePlay) < MaxAnimUpdates
    /\ activeSurgeonAnimation' = AnimationSystem_update(activeSurgeonAnimation, deltaTime)
    /\ sincePlay' = IF activeSurgeonAnimation = NoAnimation THEN sincePlay
                    ELSE Append(sincePlay, deltaTime)
    /\ lastOp' = Op("AnimationSystem.update", "-", deltaTime, TRUE)
    /\ UNCHANGED <<stateData, emitted, run, ctlVars, obsVars, inputVars, ritualVars, dpadVars>>

Anim_stopSurgeonAnimation ==
  /\ activeSurgeonAnimation' = stopSurgeonAnimation(activeSurgeonAnimation)
  /\ sincePlay' = <<>>
  /\ lastOp' = Op("stopSurgeonAnimation", "-", 0, TRUE)
  /\ UNCHANGED <<stateData, emitted, run, ctlVars, obsVars, inputVars, ritualVars, dpadVars>>

NextAnimation ==
  \/ Anim_playSurgeonAnimation
  \/ Anim_update
  \/ Anim_stopSurgeonAnimation

SpecAnimation == InitCtl /\ [][NextAnimation]_vars

(***************************************************************************)
(* GameFSM's stateChange callbacks and the snapshots handed to readers.    *)
(* A callback is named by an identifier; cbOnce is a callback whose body   *)
(* calls off() on itself, the others do nothing to the state machine.      *)
(* A snapshot is { ...this.stateData }: its top-level fields are copies,   *)
(* its currentRitual is the very object the state machine holds until      *)
(* loadRitual puts another object in its place.                            *)
(***************************************************************************)
Callbacks == {"cbA", "cbB", "cbOnce"}

\* on('stateChange', callback): push
on(callbacks, callback) == Append(callbacks, callback)

\* Array.prototype.indexOf, 0-based, -1 when absent
indexOf(callbacks, callback) ==
  IF \E i \in 1..Len(callbacks) : callbacks[i] = callback
  THEN (CHOOSE i \in 1..Len(callbacks) :
          /\ callbacks[i] = callback
          /\ \A j \in 1..(i - 1) : callbacks[j] # callback) - 1
  ELSE 0 - 1

\* splice(index, 1)
splice1(callbacks, index) ==
  [i \in 1..(Len(callbacks) - 1) |-> IF i <= index THEN callbacks[i] ELSE callbacks[i + 1]]

off(callbacks, callback) ==
  LET index == indexOf(callbacks, callback)
  IN IF index > 0 - 1 THEN splice1(callbacks, index) ELSE callbacks

\* the body of a callback, as far as it touches the callback list
runCallback(callbacks, callback) ==
  IF callback = "cbOnce" THEN off(callbacks, callback) ELSE callbacks

\* "for (const callback of this.stateChangeCallbacks) callback(newState, getStateData())":
\* the array iterator reads index i of the array as it is at that moment
RECURSIVE forOfCallbacks(_, _, _, _)
forOfCallbacks(callbacks, i, event, calls) ==
  IF i >= Len(callbacks) THEN [callbacks |-> callbacks, calls |-> calls]
  ELSE LET callback == callbacks[i + 1]
       IN forOfCallbacks(runCallback(callbacks, callback), i + 1, event,
                         Append(calls, [callback |-> callback, newState |-> event.newState,
                                        stateData |-> event.stateData]))

\* the events of one operation (at most one) delivered to the callbacks
deliver(callbacks, events) ==
  IF events = <<>> THEN [callbacks |-> callbacks, calls |-> <<>>]
  ELSE forOfCallbacks(callbacks, 0, events[1], <<>>)

\* a reader's handle on a snapshot
Snapshot(d, sharesRitual) == [data |-> d, sharesRitual |-> sharesRitual]

\* what the reader holds after the callbacks were called with these events
HeldAfter(calls, held) ==
  IF calls = <<>> THEN held ELSE <<Snapshot(calls[Len(calls)].stateData, TRUE)>>

\* the rituals of this part: one to MaxSteps steps of one second each
ObservedRituals ==
  {r \in Rituals : /\ r.levelNumber = 1
                   /\ Len(r.steps) >= 1
                   /\ \A i \in 1..Len(r.steps) : r.steps[i].timeLimit = 1}

\* steps.pop() on a ritual
popStep(ritual) ==
  IF Len(ritual.steps) = 0 THEN ritual
  ELSE [ritual EXCEPT !.steps = SubSeq(ritual.steps, 1, Len(ritual.steps) - 1)]

InitObservers ==
  /\ \E r \in ObservedRituals : stateData = NewGameFSM(r)
  /\ emitted = <<>>
  /\ lastOp = OpNew
  /\ run = NoRun
  /\ currentLevel = 1
  /\ animationDelayActive = FALSE
  /\ timers = <<>>
  /\ attemptLog = <<>>
  /\ NoObservers
  /\ NewInputManager
  /\ generated = <<>>
  /\ dpadHit = NoHit
  /\ activeSurgeonAnimation = NoAnimation
  /\ sincePlay = <<>>

Obs_on ==
  \E callback \in Callbacks :
    /\ Len(stateChangeCallbacks) < MaxCallbacks
    /\ stateChangeCallbacks' = on(stateChangeCallbacks, callback)
    /\ invoked' = <<>>
    /\ emitted' = <<>>
    /\ lastOp' = Op("on", callback, 0, TRUE)
    /\ UNCHANGED <<stateData, heldSnapshot, run, ctlVars, inputVars, ritualVars, dpadVars, animVars>>

Obs_off ==
  \E callback \in Callbacks :
    /\ stateChangeCallbacks' = off(stateChangeCallbacks, callback)
    /\ invoked' = <<>>
    /\ emitted' = <<>>
    /\ lastOp' = Op("off", callback, 0, TRUE)
    /\ UNCHANGED <<stateData, heldSnapshot, run, ctlVars, inputVars, ritualVars, dpadVars, animVars>>

Obs_TRANSITION_TO_STATE ==
  \E s \in GameState :
    LET t == TRANSITION_TO_STATE(stateData, s)
        r == deliver(stateChangeCallbacks, t.events)
    IN /\ stateData' = t.data
       /\ emitted' = t.events
       /\ stateChangeCallbacks' = r.callbacks
       /\ invoked' = r.calls
       /\ heldSnapshot' = HeldAfter(r.calls, heldSnapshot)
       /\ lastOp' = Op("TRANSITION_TO_STATE", s, 0, t.ret)
       /\ UNCHANGED <<run, ctlVars, inputVars, ritualVars, dpadVars, animVars>>

Obs_updateTime ==
  \E delta \in Deltas :
    LET u == updateTime(stateData, delta)
        r == deliver(stateChangeCallbacks, u.events)
    IN /\ stateData' = u.data
       /\ emitted' = u.events
       /\ stateChangeCallbacks' = r.callbacks
       /\ invoked' = r.calls
       /\ heldSnapshot' = HeldAfter(r.calls, heldSnapshot)
       /\ lastOp' = Op("updateTime", "-", delta, TRUE)
       /\ UNCHANGED <<run, ctlVars, inputVars, ritualVars, dpadVars, animVars>>

\* the state machine is given another ritual object: a snapshot taken before keeps the old one
Obs_loadRitual ==
  \E r \in ObservedRituals :
    /\ stateData' = loadRitual(stateData, r)
    /\ heldSnapshot' = IF heldSnapshot = <<>> THEN <<>>
                       ELSE <<Snapshot(heldSnapshot[1].data, FALSE)>>
    /\ invoked' = <<>>
    /\ emitted' = <<>>
    /\ lastOp' = Op("loadRitual", "-", 0, TRUE)
    /\ UNCHANGED <<stateChangeCallbacks, run, ctlVars, inputVars, ritualVars, dpadVars, animVars>>

Obs_getStateData ==
  /\ heldSnapshot' = <<Snapshot(getStateData(stateData), TRUE)>>
  /\ invoked' = <<>>
  /\ emitted' = <<>>
  /\ lastOp' = Op("getStateData", "-", 0, TRUE)
  /\ UNCHANGED <<stateData, stateChangeCallbacks, run, ctlVars, inputVars, ritualVars, dpadVars, animVars>>

\* a reader assigns a top-level field of its snapshot: snapshot.currentState = IDLE
Reader_writeField ==
  /\ heldSnapshot # <<>>
  /\ heldSnapshot' =
       <<[heldSnapshot[1] EXCEPT !.data.currentState = "STATE_IDLE"]>>
  /\ invoked' = <<>>
  /\ emitted' = <<>>
  /\ lastOp' = Op("readerWrite", "currentState", 0, TRUE)
  /\ UNCHANGED <<stateData, stateChangeCallbacks, run, ctlVars, inputVars, ritualVars, dpadVars, animVars>>

\* a reader changes the ritual it reaches through its snapshot:
\* snapshot.currentRitual.steps.pop()
Reader_writeRitual ==
  /\ heldSnapshot # <<>>
  /\ LET popped == popStep(heldSnapshot[1].data.currentRitual)
     IN /\ heldSnapshot' = <<[heldSnapshot[1] EXCEPT !.data.currentRitual = popped]>>
        /\ stateData' = IF heldSnapshot[1].sharesRitual
                        THEN [stateData EXCEPT !.currentRitual = popped]
                        ELSE stateData
  /\ invoked' = <<>>
  /\ emitted' = <<>>
  /\ lastOp' = Op("readerWrite", "currentRitual.steps", 0, TRUE)
  /\ UNCHANGED <<stateChangeCallbacks, run, ctlVars, inputVars, ritualVars, dpadVars, animVars>>

NextObservers ==
  \/ Obs_on
  \/ Obs_off
  \/ Obs_TRANSITION_TO_STATE
  \/ Obs_updateTime
  \/ Obs_loadRitual
  \/ Obs_getStateData
  \/ Reader_writeField
  \/ Reader_writeRitual

SpecObservers == InitObservers /\ [][NextObservers]_vars

(***************************************************************************)
(* InputManager: HANDLE_BUTTON_PRESS and its debounce cache.  Date.now()   *)
(* is the variable clock, which only moves forward.                        *)
(***************************************************************************)
\* the actions pressed in this part
PressedActions == {"BUTTON_A", "BUTTON_B"}

\* milliseconds the clock is moved on by between two calls
Ticks == {10, 40}

\* where the clock stops
ClockEnd == (CHOOSE t \in StartTimes : TRUE) + MaxElapsed

\* Map.get: undefined is shown as 0 only through "|| 0" below
mapHas(m, k) == k \in DOMAIN m

mapSet(m, k, v) == [x \in DOMAIN m \cup {k} |-> IF x = k THEN v ELSE m[x]]

\* this.lastInputTime.get(action) || 0
lastTime(m, action) == IF mapHas(m, action) /\ m[action] # 0 THEN m[action] ELSE 0

\* the largest timestamp of the cache, 0 when it is empty
latestTime(m) ==
  IF DOMAIN m = {} THEN 0 ELSE CHOOSE t \in {m[k] : k \in DOMAIN m} : \A k \in DOMAIN m : m[k] <= t

\* mutant: one window for all actions
timeSinceLastInput_global(m, action, now) == now - latestTime(m)

timeSinceLastInput(m, action, now) == now - lastTime(m, action)

\* emitInput(action): the action handed to the input callbacks
emitInput(action) == <<action>>

\* mutant: a dropped press restarts the window
HANDLE_BUTTON_PRESS_restarting(m, action, now) ==
  IF timeSinceLastInput(m, action, now) < INPUT_DEBOUNCE_MS
  THEN [lastInputTime |-> mapSet(m, action, now), events |-> <<>>]
  ELSE [lastInputTime |-> mapSet(m, action, now), events |-> emitInput(action)]

\* result: the cache afterwards and the actions emitted
HANDLE_BUTTON_PRESS(m, action, now) ==
  IF timeSinceLastInput(m, action, now) < INPUT_DEBOUNCE_MS
  THEN [lastInputTime |-> m, events |-> <<>>]
  ELSE [lastInputTime |-> mapSet(m, action, now), events |-> emitInput(action)]

\* reset(): this.lastInputTime.clear()
reset(m) == EmptyMap

Input_tick ==
  \E t \in Ticks :
    /\ clock + t <= ClockEnd
    /\ clock' = clock + t
    /\ inputEvents' = <<>>
    /\ lastOp' = Op("tick", "-", t, TRUE)
    /\ UNCHANGED <<lastInputTime, acceptedAt, stateData, emitted, run, ctlVars, obsVars, ritualVars, dpadVars, animVars>>

\* acceptedAt keeps, apart from the cache, when each action was last emitted
Input_HANDLE_BUTTON_PRESS ==
  \E action \in PressedActions :
    LET r == HANDLE_BUTTON_PRESS(lastInputTime, action, clock)
    IN /\ lastInputTime' = r.lastInputTime
       /\ inputEvents' = r.events
       /\ acceptedAt' = IF r.events # <<>> THEN mapSet(acceptedAt, action, clock) ELSE acceptedAt
       /\ lastOp' = [Op("HANDLE_BUTTON_PRESS", "-", 0, r.events # <<>>) EXCEPT !.action = action]
       /\ UNCHANGED <<clock, stateData, emitted, run, ctlVars, obsVars, ritualVars, dpadVars, animVars>>

\* reset() forgets the windows; the history of accepted presses starts anew with it
Input_reset ==
  /\ lastInputTime' = reset(lastInputTime)
  /\ acceptedAt' = EmptyMap
  /\ inputEvents' = <<>>
  /\ lastOp' = Op("reset", "-", 0, TRUE)
  /\ UNCHANGED <<clock, stateData, emitted, run, ctlVars, obsVars, ritualVars, dpadVars, animVars>>

NextInput ==
  \/ Input_tick
  \/ Input_HANDLE_BUTTON_PRESS
  \/ Input_reset

SpecInput == InitObservers /\ [][NextInput]_vars

(***************************************************************************)
(* Properties                                                              *)
(***************************************************************************)
\* the eight transitions of the specification's table
ListedTransitions ==
  {<<"STATE_IDLE", "STATE_RITUAL_STEP">>,
   <<"STATE_RITUAL_STEP", "STATE_RITUAL_STEP">>,
   <<"STATE_RITUAL_STEP", "STATE_MONSTER_MAD">>,
   <<"STATE_RITUAL_STEP", "STATE_ITS_ALIVE">>,
   <<"STATE_MONSTER_MAD", "STATE_RITUAL_STEP">>,
   <<"STATE_MONSTER_MAD", "STATE_IDLE">>,
   <<"STATE_ITS_ALIVE", "STATE_RITUAL_STEP">>,
   <<"STATE_ITS_ALIVE", "STATE_IDLE">>}

\* C1: TRANSITION_TO_STATE(to) called in state from returns true and sets
\* currentState to `to` exactly when (from, to) is one of the eight listed
\* transitions; for every other pair it returns false and currentState stays from.
C1_TransitionTable ==
  [][lastOp'.op = "TRANSITION_TO_STATE" =>
       LET from == stateData.currentState
           to == lastOp'.to
       IN /\ lastOp'.ret = (<<from, to>> \in ListedTransitions)
          /\ lastOp'.ret => stateData'.currentState = to
          /\ ~lastOp'.ret => stateData'.currentState = from]_vars

\* a transition outside the table was asked for in MONSTER_MAD and refused
C1_Witness ==
  /\ lastOp.op = "TRANSITION_TO_STATE"
  /\ lastOp.from = "STATE_MONSTER_MAD"
  /\ lastOp.to = "STATE_ITS_ALIVE"
  /\ lastOp.ret = FALSE
  /\ stateData.currentState = "STATE_MONSTER_MAD"

\* C2: a rejected TRANSITION_TO_STATE leaves every field of the state data
\* unchanged, invokes no stateChange listener and reports the failure by its
\* return value false (the call returns: lastOp records a boolean result).
C2_RejectedTransition ==
  [][lastOp'.op = "TRANSITION_TO_STATE" /\ lastOp'.ret = FALSE =>
       /\ stateData' = stateData
       /\ emitted' = <<>>]_vars

\* a transition to IDLE was refused in RITUAL_STEP while mistakes were on record
C2_Witness ==
  /\ lastOp.op = "TRANSITION_TO_STATE"
  /\ lastOp.ret = FALSE
  /\ lastOp.from = "STATE_RITUAL_STEP"
  /\ lastOp.to = "STATE_IDLE"
  /\ stateData.mistakeCount >= 1
  /\ stateData.currentStepIndex >= 1

\* C3: from IDLE at step 0 with a ritual of n >= 1 steps, START_RITUAL_SEQUENCE
\* followed by k COMPLETE_RITUAL_STEP calls (no failure, no timeout) leaves the
\* machine in RITUAL_STEP at step k for k < n and, for k = n, in ITS_ALIVE at
\* step n with the monster ALIVE.
C3_CompletionRun ==
  run >= 0 =>
    LET n == Len(stateData.currentRitual.steps)
    IN /\ run <= n
       /\ run < n => /\ stateData.currentState = "STATE_RITUAL_STEP"
                     /\ stateData.currentStepIndex = run
       /\ run = n => /\ stateData.currentState = "STATE_ITS_ALIVE"
                     /\ stateData.currentStepIndex = n
                     /\ stateData.golem_current_state = "STATE_ALIVE"

\* a two-step ritual was completed by its second completion
C3_Witness ==
  /\ run = 2
  /\ Len(stateData.currentRitual.steps) = 2
  /\ lastOp.op = "COMPLETE_RITUAL_STEP"
  /\ stateData.currentState = "STATE_ITS_ALIVE"

\* C4: in RITUAL_STEP, HANDLE_RITUAL_FAILURE increases mistakeCount and
\* golem_madnessLevel by exactly 1 each, moves the state to MONSTER_MAD, leaves
\* the monster state FLATLINE and leaves currentStepIndex, the current ritual
\* and levelNumber unchanged.
C4_RitualFailure ==
  [][lastOp'.op = "HANDLE_RITUAL_FAILURE" /\ stateData.currentState = "STATE_RITUAL_STEP" =>
       /\ stateData'.mistakeCount = stateData.mistakeCount + 1
       /\ stateData'.golem_madnessLevel = stateData.golem_madnessLevel + 1
       /\ stateData'.currentState = "STATE_MONSTER_MAD"
       /\ stateData'.golem_current_state = "STATE_FLATLINE"
       /\ stateData'.currentStepIndex = stateData.currentStepIndex
       /\ stateData'.currentRitual = stateData.currentRitual
       /\ stateData'.levelNumber = stateData.levelNumber]_vars

\* a failure was handled in RITUAL_STEP at the second step of a ritual
C4_Witness ==
  /\ lastOp.op = "HANDLE_RITUAL_FAILURE"
  /\ lastOp.from = "STATE_RITUAL_STEP"
  /\ stateData.currentState = "STATE_MONSTER_MAD"
  /\ stateData.mistakeCount = 1
  /\ stateData.currentStepIndex = 1

AllLimitsPositive(ritual) == \A i \in 1..Len(ritual.steps) : ritual.steps[i].timeLimit > 0

\* C6: in RITUAL_STEP, updateTime(d) subtracts d milliseconds from
\* timeRemaining; if the result is <= 0, timeRemaining is 0 and the state is
\* MONSTER_MAD after the call; if it is > 0 the state stays RITUAL_STEP.  And
\* timeRemaining is never negative while the ritual held has only positive
\* time limits.
C6_UpdateTime ==
  /\ [][lastOp'.op = "updateTime" /\ stateData.currentState = "STATE_RITUAL_STEP" =>
          LET left == stateData.timeRemaining - lastOp'.delta
          IN /\ left <= 0 => /\ stateData'.timeRemaining = 0
                             /\ stateData'.currentState = "STATE_MONSTER_MAD"
             /\ left > 0 => /\ stateData'.timeRemaining = left
                            /\ stateData'.currentState = "STATE_RITUAL_STEP"]_vars
  /\ [](AllLimitsPositive(stateData.currentRitual) => stateData.timeRemaining >= 0)

\* a step of positive time limit ran out under a delta larger than the time left
C6_Witness ==
  /\ lastOp.op = "updateTime"
  /\ lastOp.from = "STATE_RITUAL_STEP"
  /\ lastOp.delta = 3000
  /\ AllLimitsPositive(stateData.currentRitual)
  /\ Len(stateData.currentRitual.steps) >= 1
  /\ stateData.currentState = "STATE_MONSTER_MAD"
  /\ stateData.timeRemaining = 0

\* the action of the step the machine is at is not `action`
WrongForCurrentStep(action) ==
  ~(hasCurrentStep(stateData) /\ action = getCurrentStep(stateData).correctAction)

\* the frame before timed the step out and now an action wrong for that step arrives
TimeoutThenWrongAction ==
  /\ lastOp.op = "update"
  /\ lastOp.from = "STATE_RITUAL_STEP"
  /\ stateData.currentState = "STATE_MONSTER_MAD"
  /\ lastOp'.op = "handleInput"
  /\ WrongForCurrentStep(lastOp'.action)

\* a wrong action failed the step and now the frame brings the timer's expiry
WrongActionThenTimeout ==
  /\ lastOp.op = "handleInput"
  /\ lastOp.from = "STATE_RITUAL_STEP"
  /\ stateData.currentState = "STATE_MONSTER_MAD"
  /\ lastOp'.op = "update"
  /\ stateData.timeRemaining - lastOp'.delta <= 0

\* C7: when a timer expiry and a wrong action both occur for the same step in
\* the same tick, in either order, the second failure attempt changes no state
\* data and no second stateChange is seen by the listeners.
C7_DoubleFailure ==
  [][TimeoutThenWrongAction \/ WrongActionThenTimeout =>
       /\ stateData' = stateData
       /\ emitted' = <<>>]_vars

\* C8: after any sequence of the state machine's public operations,
\* currentStepIndex lies in [0, currentRitual.steps.length].
C8_StepIndexInRange ==
  /\ stateData.currentStepIndex >= 0
  /\ stateData.currentStepIndex <= Len(stateData.currentRitual.steps)

\* C9: golem_madnessLevel becomes 0 only by a successful transition into IDLE
\* or by resetToFirstStep; every other operation leaves it unchanged, except
\* REGISTER_MISTAKE, which alone increases it (by one).
C9_MadnessChanges ==
  [][stateData'.golem_madnessLevel # stateData.golem_madnessLevel =>
       \/ /\ stateData'.golem_madnessLevel = 0
          /\ \/ lastOp'.op = "resetToFirstStep"
             \/ /\ lastOp'.op = "TRANSITION_TO_STATE"
                /\ lastOp'.to = "STATE_IDLE"
                /\ lastOp'.ret = TRUE
       \/ /\ stateData'.golem_madnessLevel = stateData.golem_madnessLevel + 1
          /\ lastOp'.op = "REGISTER_MISTAKE"]_vars

\* loadRitual was called in MONSTER_MAD with three mistakes on record and left them
C9_Witness ==
  /\ lastOp.op = "loadRitual"
  /\ lastOp.from = "STATE_MONSTER_MAD"
  /\ stateData.golem_madnessLevel = 3

\* the correct actions of the ritual's steps, in their listed order
RequiredActions(ritual) == [i \in 1..Len(ritual.steps) |-> ritual.steps[i].correctAction]

\* C10: under the controller's inputs and frames currentStepIndex changes only
\* by +1, on an input equal to the current step's correctAction, or back to 0,
\* on a retry or a level start; and in ITS_ALIVE the actions accepted since the
\* attempt began are exactly the ritual's required actions in their order.
C10_NoStepSkipped ==
  /\ [][stateData'.currentStepIndex # stateData.currentStepIndex =>
          \/ /\ stateData'.currentStepIndex = stateData.currentStepIndex + 1
             /\ lastOp'.op = "handleInput"
             /\ stateData.currentState = "STATE_RITUAL_STEP"
             /\ hasCurrentStep(stateData)
             /\ lastOp'.action = getCurrentStep(stateData).correctAction
             /\ stateData'.currentRitual = stateData.currentRitual
          \/ /\ stateData'.currentStepIndex = 0
             /\ lastOp'.op = "handleInput"
             /\ lastOp'.action = "BUTTON_START"
             /\ stateData.currentState \in {"STATE_MONSTER_MAD", "STATE_IDLE", "STATE_ITS_ALIVE"}]_vars
  /\ [](stateData.currentState = "STATE_ITS_ALIVE" =>
          /\ attemptLog = RequiredActions(stateData.currentRitual)
          /\ stateData.currentStepIndex = Len(stateData.currentRitual.steps))

\* the second level's ritual was completed step by step
C10_Witness ==
  /\ stateData.currentState = "STATE_ITS_ALIVE"
  /\ currentLevel = 2
  /\ lastOp.op = "handleInput"
  /\ Len(attemptLog) = 5

\* handleInput is called in RITUAL_STEP with the current step's correctAction
CorrectInputArrives ==
  /\ lastOp'.op = "handleInput"
  /\ stateData.currentState = "STATE_RITUAL_STEP"
  /\ hasCurrentStep(stateData)
  /\ lastOp'.action = getCurrentStep(stateData).correctAction

\* C11: whenever handleInput(a) is called in RITUAL_STEP with a the current
\* step's correctAction, that call completes the step: currentStepIndex grows
\* by 1 and the state is ITS_ALIVE after the last step, RITUAL_STEP otherwise;
\* in every reachable controller state, right after a retry included.
C11_CorrectInputCompletes ==
  [][CorrectInputArrives =>
       /\ stateData'.currentStepIndex = stateData.currentStepIndex + 1
       /\ stateData'.currentState =
            IF stateData.currentStepIndex + 1 = Len(stateData.currentRitual.steps)
            THEN "STATE_ITS_ALIVE" ELSE "STATE_RITUAL_STEP"]_vars

DerivedMonsterState(madness) ==
  IF madness >= 3 THEN "STATE_ANGRY"
  ELSE IF madness >= 1 THEN "STATE_NERVOUS"
  ELSE "STATE_CALM"

\* C13: in every state reachable through the controller's inputs and frames,
\* in RITUAL_STEP the monster state is the one derived from the madness level
\* (CALM for 0, NERVOUS for 1 or 2, ANGRY from 3); FLATLINE occurs only in
\* MONSTER_MAD and ALIVE only in ITS_ALIVE.
C13_MonsterStateDerived ==
  /\ stateData.currentState = "STATE_RITUAL_STEP" =>
       stateData.golem_current_state = DerivedMonsterState(stateData.golem_madnessLevel)
  /\ stateData.golem_current_state = "STATE_FLATLINE" =>
       stateData.currentState = "STATE_MONSTER_MAD"
  /\ stateData.golem_current_state = "STATE_ALIVE" =>
       stateData.currentState = "STATE_ITS_ALIVE"

\* the number of calls in `calls` made to `callback`
TimesInvoked(calls, callback) ==
  Cardinality({i \in 1..Len(calls) : calls[i].callback = callback})

Registered(callbacks) == {callbacks[i] : i \in 1..Len(callbacks)}

\* C14: on every successful transition (the timeout transition inside
\* updateTime included) each callback registered at that moment is invoked
\* exactly once before the call returns, and no other callback is; every
\* invocation carries the new state and a snapshot whose currentState is the
\* new state with the on-enter effects applied; and a callback removed with
\* off() is no longer registered, so later transitions do not invoke it.
C14_ListenersNotified ==
  [][/\ lastOp'.op \in {"TRANSITION_TO_STATE", "updateTime"} /\ emitted' # <<>> =>
          /\ \A callback \in Callbacks :
                TimesInvoked(invoked', callback) =
                  IF callback \in Registered(stateChangeCallbacks) THEN 1 ELSE 0
          /\ \A i \in 1..Len(invoked') :
                /\ invoked'[i].newState = stateData'.currentState
                /\ invoked'[i].stateData = stateData'
     /\ lastOp'.op = "off" => lastOp'.to \notin Registered(stateChangeCallbacks')]_vars

\* C15: a snapshot returned by getStateData() or handed to a callback is a
\* copy: whatever a reader writes to it, to its nested currentRitual and that
\* ritual's steps included, the state machine's data stay as they were.
C15_SnapshotIsACopy ==
  [][lastOp'.op = "readerWrite" => stateData' = stateData]_vars

\* a press of the action was emitted before and fewer than 50 ms have passed since
InsideWindow(action) ==
  /\ action \in DOMAIN acceptedAt
  /\ clock - acceptedAt[action] < 50

CacheEntry(m, action) == IF action \in DOMAIN m THEN m[action] ELSE 0 - 1

\* C17: debouncing is per action: a press of an action is dropped only when
\* that same action was emitted fewer than 50 ms before, whatever other
\* actions were pressed and however recently; and a press of one action
\* leaves the debounce timestamps of all other actions as they were.
C17_PerActionDebounce ==
  [][lastOp'.op = "HANDLE_BUTTON_PRESS" =>
       /\ inputEvents' = <<>> => InsideWindow(lastOp'.action)
       /\ \A other \in PressedActions \ {lastOp'.action} :
             CacheEntry(lastInputTime', other) = CacheEntry(lastInputTime, other)]_vars

\* BUTTON_A was emitted in the same millisecond in which BUTTON_B had been emitted
C17_Witness ==
  /\ lastOp.op = "HANDLE_BUTTON_PRESS"
  /\ lastOp.action = "BUTTON_A"
  /\ lastOp.ret = TRUE
  /\ inputEvents = <<"BUTTON_A">>
  /\ "BUTTON_B" \in DOMAIN acceptedAt
  /\ acceptedAt["BUTTON_B"] = clock
  /\ lastInputTime["BUTTON_B"] = clock

\* C18: in every reachable state of the state machine, whatever ritual it
\* holds, updateTime(0) changes no state data (timeRemaining and currentState
\* included) and notifies no listener.
C18_UpdateTimeZero ==
  [][lastOp'.op = "updateTime" /\ lastOp'.delta = 0 =>
       /\ stateData' = stateData
       /\ emitted' = <<>>]_vars

\* C19: in IDLE, MONSTER_MAD and ITS_ALIVE updateTime(d) is a no-op for every
\* d: timeRemaining and all other state data are unchanged and no transition
\* or notification occurs.
C19_TimerOnlyInRitualStep ==
  [][lastOp'.op = "updateTime" /\ stateData.currentState # "STATE_RITUAL_STEP" =>
       /\ stateData' = stateData
       /\ emitted' = <<>>]_vars

\* updateTime(3000) was called in MONSTER_MAD with two seconds on the timer and left them
C19_Witness ==
  /\ lastOp.op = "updateTime"
  /\ lastOp.from = "STATE_MONSTER_MAD"
  /\ lastOp.delta = 3000
  /\ stateData.currentState = "STATE_MONSTER_MAD"
  /\ stateData.timeRemaining = 2000

\* C20: after loadRitual(R), in whatever state it is called, the ritual that
\* getStateData().currentRitual reports has R's level number and R's step
\* count, currentStepIndex is 0 and levelNumber is R.levelNumber.
C20_LoadRitualRoundTrip ==
  [][lastOp'.op = "loadRitual" =>
       LET R == lastOp'.ritual
           reported == getStateData(stateData').currentRitual
       IN /\ reported.levelNumber = R.levelNumber
          /\ Len(reported.steps) = Len(R.steps)
          /\ stateData'.currentStepIndex = 0
          /\ stateData'.levelNumber = R.levelNumber]_vars

\* a two-step ritual of level 2 was loaded in RITUAL_STEP over a level-1 ritual's mistakes
C20_Witness ==
  /\ lastOp.op = "loadRitual"
  /\ lastOp.from = "STATE_RITUAL_STEP"
  /\ lastOp.ritual.levelNumber = 2
  /\ Len(lastOp.ritual.steps) = 2
  /\ stateData.currentState = "STATE_RITUAL_STEP"
  /\ stateData.levelNumber = 2
  /\ stateData.mistakeCount = 2

\* C21: a ritual with zero steps is guarded at load time: after the
\* constructor or loadRitual the machine holds a ritual of at least one step
\* with a floor time limit of at least 1 second, and getCurrentStep() is
\* defined at index 0.
C21_ZeroStepRitualGuarded ==
  lastOp.op \in {"new", "loadRitual"} =>
    /\ Len(stateData.currentRitual.steps) >= 1
    /\ hasCurrentStep(stateData)
    /\ stateData.currentStepIndex = 0

\* a step exists at the index after the operation and its timeLimit is zero or negative
NonPositiveStepBegins ==
  /\ \/ lastOp'.op = "TRANSITION_TO_STATE" /\ lastOp'.ret /\ lastOp'.to = "STATE_RITUAL_STEP"
     \/ lastOp'.op = "ADVANCE_RITUAL_STEP" /\ lastOp'.ret
     \/ lastOp'.op \in {"loadRitual", "resetToFirstStep"}
  /\ hasCurrentStep(stateData')
  /\ getCurrentStep(stateData').timeLimit <= 0

\* C22: whenever a step whose timeLimit is zero or negative begins (entering
\* RITUAL_STEP, ADVANCE_RITUAL_STEP to it, loadRitual, resetToFirstStep),
\* timeRemaining is set to a floor of at least 1 second, not to the raw value.
C22_TimeLimitClamped ==
  [][NonPositiveStepBegins => stateData'.timeRemaining >= 1000]_vars

\* C29: ADVANCE_RITUAL_STEP, REGISTER_MISTAKE, resetToFirstStep and loadRitual
\* change neither currentState nor notify a listener; currentState changes
\* only by a successful transition (TRANSITION_TO_STATE, or the one updateTime
\* makes on a timeout), so advancing to a following step emits no event.
C29_DataMutationsOnly ==
  [][/\ lastOp'.op \in {"ADVANCE_RITUAL_STEP", "REGISTER_MISTAKE", "resetToFirstStep", "loadRitual"} =>
          /\ stateData'.currentState = stateData.currentState
          /\ emitted' = <<>>
     /\ stateData'.currentState # stateData.currentState =>
          /\ \/ lastOp'.op = "TRANSITION_TO_STATE" /\ lastOp'.ret
             \/ lastOp'.op = "updateTime"
          /\ emitted' # <<>>]_vars

\* ADVANCE_RITUAL_STEP moved a two-step ritual to its second step in RITUAL_STEP, no event
C29_Witness ==
  /\ lastOp.op = "ADVANCE_RITUAL_STEP"
  /\ lastOp.ret = TRUE
  /\ lastOp.from = "STATE_RITUAL_STEP"
  /\ stateData.currentState = "STATE_RITUAL_STEP"
  /\ stateData.currentStepIndex = 1
  /\ emitted = <<>>

\* C30: REGISTER_MISTAKE increases mistakeCount and golem_madnessLevel by
\* exactly 1 each and sets the monster state from the new madness level m
\* alone: ANGRY if m >= 3, NERVOUS if m is 1 or 2, CALM only if m = 0.
C30_RegisterMistake ==
  [][lastOp'.op = "REGISTER_MISTAKE" =>
       LET m == stateData'.golem_madnessLevel
       IN /\ stateData'.mistakeCount = stateData.mistakeCount + 1
          /\ m = stateData.golem_madnessLevel + 1
          /\ stateData'.golem_current_state =
               IF m >= 3 THEN "STATE_ANGRY"
               ELSE IF m \in {1, 2} THEN "STATE_NERVOUS"
               ELSE "STATE_CALM"]_vars

\* the third mistake in a row was registered in MONSTER_MAD and turned FLATLINE into ANGRY
C30_Witness ==
  /\ lastOp.op = "REGISTER_MISTAKE"
  /\ lastOp.from = "STATE_MONSTER_MAD"
  /\ stateData.mistakeCount = 3
  /\ stateData.golem_madnessLevel = 3
  /\ stateData.golem_current_state = "STATE_ANGRY"

\* C26: a timeout (updateTime moving RITUAL_STEP to MONSTER_MAD) leaves
\* mistakeCount and golem_madnessLevel as they were; they grow only by
\* HANDLE_RITUAL_FAILURE, by one each, so timeouts and retries alone never
\* raise them above 0.
C26_TimeoutCountsNoMistake ==
  [][/\ lastOp'.op = "updateTime" =>
          /\ stateData'.mistakeCount = stateData.mistakeCount
          /\ stateData'.golem_madnessLevel = stateData.golem_madnessLevel
     /\ \/ stateData'.mistakeCount > stateData.mistakeCount
        \/ stateData'.golem_madnessLevel > stateData.golem_madnessLevel
        => /\ lastOp'.op = "HANDLE_RITUAL_FAILURE"
           /\ stateData'.mistakeCount = stateData.mistakeCount + 1
           /\ stateData'.golem_madnessLevel = stateData.golem_madnessLevel + 1]_vars

\* a step timed out while one mistake was on record, and one mistake it stayed
C26_Witness ==
  /\ lastOp.op = "updateTime"
  /\ lastOp.from = "STATE_RITUAL_STEP"
  /\ stateData.currentState = "STATE_MONSTER_MAD"
  /\ stateData.timeRemaining = 0
  /\ stateData.mistakeCount = 1
  /\ stateData.golem_madnessLevel = 1

\* the operation just made begins a step: it entered RITUAL_STEP or advanced to a following step
StepBegins ==
  /\ \/ emitted' # <<>> /\ stateData'.currentState = "STATE_RITUAL_STEP"
     \/ /\ lastOp'.op = "COMPLETE_RITUAL_STEP"
        /\ stateData'.currentStepIndex = stateData.currentStepIndex + 1
  /\ hasCurrentStep(stateData')

ConsecutiveLevels ==
  /\ Len(generated) = 2
  /\ generated[2].levelNumber = generated[1].levelNumber + 1

\* the step positions both rituals have
CommonPositions == 1..Min(Len(generated[1].steps), Len(generated[2].steps))

\* C23: the ritual of level L+1 has at least as many steps as that of level
\* L, and at every step position both have, a time limit no greater; the
\* multiplier of a ritual is never below 0.6 and no step's time limit is below
\* 1 second.
C23_MonotoneScaling ==
  /\ \A k \in 1..Len(generated) :
       /\ generated[k].timeLimitMultiplier >= 60
       /\ \A i \in 1..Len(generated[k].steps) : generated[k].steps[i].timeLimit >= 1
  /\ ConsecutiveLevels =>
       /\ Len(generated[2].steps) >= Len(generated[1].steps)
       /\ \A i \in CommonPositions :
            generated[2].steps[i].timeLimit <= generated[1].steps[i].timeLimit

\* level 3 then level 4: a sixth step was added and the first step went from 9 s to 8 s
C23_Witness ==
  /\ ConsecutiveLevels
  /\ generated[1].levelNumber = 3
  /\ Len(generated[1].steps) = 5
  /\ Len(generated[2].steps) = 6
  /\ generated[1].steps[1].timeLimit = 9
  /\ generated[2].steps[1].timeLimit = 8

\* C24: the ritual of level L has 5 + floor((L-1)/3) steps; the ritual of
\* level 4 has one step more than that of level 1, and the rituals of levels
\* 1 to 3 have the same number of steps.
C24_StepCountByLevel ==
  /\ \A k \in 1..Len(generated) :
       Len(generated[k].steps) = 5 + ((generated[k].levelNumber - 1) \div 3)
  /\ Len(generated) = 2 =>
       /\ generated[1].levelNumber = 1 /\ generated[2].levelNumber = 4
            => Len(generated[2].steps) = Len(generated[1].steps) + 1
       /\ generated[1].levelNumber \in 1..3 /\ generated[2].levelNumber \in 1..3
            => Len(generated[2].steps) = Len(generated[1].steps)

\* the ritual of level 1 (5 steps) and then that of level 4 (6 steps)
C24_Witness ==
  /\ Len(generated) = 2
  /\ generated[1].levelNumber = 1
  /\ generated[2].levelNumber = 4
  /\ Len(generated[1].steps) = 5
  /\ Len(generated[2].steps) = 6

\* C25: the ritual of level L+1 is strictly harder than that of level L: it
\* has a lower time limit at some step position, or it has more steps.
C25_StrictlyHarder ==
  ConsecutiveLevels =>
    \/ Len(generated[2].steps) > Len(generated[1].steps)
    \/ \E i \in CommonPositions :
         generated[2].steps[i].timeLimit < generated[1].steps[i].timeLimit

\* C31: after any sequence of RitualLogic operations and updateTime calls the
\* monster state is FLATLINE whenever currentState is MONSTER_MAD and ALIVE
\* whenever currentState is ITS_ALIVE.
C31_ForcedMonsterStateKept ==
  /\ stateData.currentState = "STATE_MONSTER_MAD"
       => stateData.golem_current_state = "STATE_FLATLINE"
  /\ stateData.currentState = "STATE_ITS_ALIVE"
       => stateData.golem_current_state = "STATE_ALIVE"

\* C35: mistakeCount equals golem_madnessLevel in every reachable state of the
\* state machine, whatever public operations were called.
C35_CountersEqual == stateData.mistakeCount = stateData.golem_madnessLevel

\* a second mistake was registered in RITUAL_STEP: both counters stand at 2
C35_Witness ==
  /\ lastOp.op = "REGISTER_MISTAKE"
  /\ lastOp.from = "STATE_RITUAL_STEP"
  /\ stateData.mistakeCount = 2
  /\ stateData.golem_madnessLevel = 2

\* C36: under the controller's inputs, frames and timer callbacks mistakeCount
\* and golem_madnessLevel never exceed 1, and the monster state is never ANGRY
\* and never NERVOUS once a call has returned.
C36_AtMostOneMistake ==
  /\ stateData.mistakeCount <= 1
  /\ stateData.golem_madnessLevel <= 1
  /\ stateData.golem_current_state \notin {"STATE_ANGRY", "STATE_NERVOUS"}

\* a wrong action was handled: one mistake on record, FLATLINE shown
C36_Witness ==
  /\ lastOp.op = "handleInput"
  /\ lastOp.from = "STATE_RITUAL_STEP"
  /\ lastOp.action = "DPAD_LEFT"
  /\ stateData.currentState = "STATE_MONSTER_MAD"
  /\ stateData.mistakeCount = 1
  /\ stateData.golem_current_state = "STATE_FLATLINE"

\* C37: under the controller, with rituals from getRitualForLevel,
\* currentStepIndex equals steps.length exactly when currentState is ITS_ALIVE,
\* and in RITUAL_STEP the current step is defined.
C37_IndexAtEndIffAlive ==
  /\ stateData.currentStepIndex = Len(stateData.currentRitual.steps)
       <=> stateData.currentState = "STATE_ITS_ALIVE"
  /\ stateData.currentState = "STATE_RITUAL_STEP" =>
       /\ hasCurrentStep(stateData)
       /\ stateData.currentStepIndex < Len(stateData.currentRitual.steps)

\* the fifth correct action of level 1 ended the ritual
C37_Witness ==
  /\ stateData.currentState = "STATE_ITS_ALIVE"
  /\ lastOp.op = "handleInput"
  /\ lastOp.from = "STATE_RITUAL_STEP"
  /\ stateData.currentStepIndex = 5
  /\ Len(stateData.currentRitual.steps) = 5

\* the actions a step made by generateVariedRitual can ask for
GeneratedActions ==
  UNION {{StepActionTable(i)[k] : k \in 1..Len(StepActionTable(i))} :
           i \in 1..(Len(BASE_STEP_ACTIONS) + 1)}

\* C38: no generated step asks for BUTTON_START or BUTTON_PAUSE, and either
\* of them handled in RITUAL_STEP while input is not blocked registers a
\* mistake and moves the game to MONSTER_MAD.  Seen from the state the call
\* leaves: after BUTTON_START or BUTTON_PAUSE was handled in RITUAL_STEP the
\* game is in MONSTER_MAD with the mistake on record, unless the action was
\* dropped by the animation-delay block, which only BUTTON_PAUSE can be and
\* which leaves the step open with animationDelayActive still set.
C38_StartAndPauseAreWrong ==
  /\ GeneratedActions \cap {"BUTTON_START", "BUTTON_PAUSE"} = {}
  /\ /\ lastOp.op = "handleInput"
     /\ lastOp.action \in {"BUTTON_START", "BUTTON_PAUSE"}
     /\ lastOp.from = "STATE_RITUAL_STEP"
     => \/ /\ stateData.currentState = "STATE_MONSTER_MAD"
           /\ stateData.mistakeCount = 1
           /\ stateData.golem_madnessLevel = 1
        \/ /\ lastOp.action = "BUTTON_PAUSE"
           /\ stateData.currentState = "STATE_RITUAL_STEP"
           /\ animationDelayActive

\* BUTTON_PAUSE pressed at the third step of a ritual ended the attempt
C38_Witness ==
  /\ lastOp.op = "handleInput"
  /\ lastOp.action = "BUTTON_PAUSE"
  /\ lastOp.from = "STATE_RITUAL_STEP"
  /\ stateData.currentState = "STATE_MONSTER_MAD"
  /\ stateData.currentStepIndex = 2
  /\ stateData.mistakeCount = 1

\* C39: whenever the controller enters RITUAL_STEP (start, next level or
\* retry) animationDelayActive is false on entry.
C39_NoDelayOnEntry ==
  [][/\ stateData.currentState # "STATE_RITUAL_STEP"
     /\ stateData'.currentState = "STATE_RITUAL_STEP"
     => ~animationDelayActive']_vars

\* C40: a timer callback that clears the animation-delay flag is the one
\* scheduled by the entry that set it: no timer of a later entry is still
\* pending when the flag goes from set to cleared by a callback.
C40_OwnTimerClearsFlag ==
  [][/\ lastOp'.op = "timerCallback"
     /\ animationDelayActive
     /\ ~animationDelayActive'
     => Len(timers) = 1]_vars

\* the call just made was a handleInput that took a correct action: it left
\* RITUAL_STEP for ITS_ALIVE or moved to the next step (a wrong action leaves
\* for MONSTER_MAD, a blocked one leaves animationDelayActive set)
CorrectActionHandled ==
  /\ lastOp.op = "handleInput"
  /\ lastOp.from = "STATE_RITUAL_STEP"
  /\ \/ stateData.currentState = "STATE_ITS_ALIVE"
     \/ stateData.currentState = "STATE_RITUAL_STEP" /\ ~animationDelayActive

\* C32: with frames of positive elapsed time kept coming, a step that is open
\* does not stay open forever: from every state in RITUAL_STEP, whatever the
\* step index, the ritual and the animation-delay flag, the state becomes
\* MONSTER_MAD unless a correct action is handled first.
C32_OpenStepTimesOut ==
  (stateData.currentState = "STATE_RITUAL_STEP")
    ~> (stateData.currentState = "STATE_MONSTER_MAD" \/ CorrectActionHandled)

\* a frame timed the third step out while a timer of an earlier entry was still pending
C32_Witness ==
  /\ lastOp.op = "update"
  /\ lastOp.from = "STATE_RITUAL_STEP"
  /\ lastOp.delta > 0
  /\ stateData.currentState = "STATE_MONSTER_MAD"
  /\ stateData.timeRemaining = 0
  /\ stateData.currentStepIndex = 2
  /\ Len(timers) = 2

\* the hit is outside the centre dead zone
OutsideDeadZone ==
  /\ dpadHit.point
  /\ Abs(dpadHit.x) >= DPAD_MIN_THRESHOLD \/ Abs(dpadHit.y) >= DPAD_MIN_THRESHOLD

\* C33: for a hit outside the dead zone getDpadDirection returns a horizontal
\* direction (RIGHT for x > 0, LEFT otherwise) only when |x| > 1.2 * |y|, and
\* otherwise the vertical one (UP for y > 0, DOWN otherwise).
C33_VerticalFavoured ==
  OutsideDeadZone =>
    dpadHit.direction =
      IF Abs(dpadHit.x) * 10 > 12 * Abs(dpadHit.y)
      THEN (IF dpadHit.x > 0 THEN "DPAD_RIGHT" ELSE "DPAD_LEFT")
      ELSE (IF dpadHit.y > 0 THEN "DPAD_UP" ELSE "DPAD_DOWN")

\* every update since the animation was played was an update(100)
OnlyFullFrames(updates) == \A k \in 1..Len(updates) : updates[k] = 100

\* where a played animation stands after the updates made since
SurgeonLifecycle(a, updates) ==
  /\ a # NoAnimation /\ ~surgeonAnimations(a.key).loop =>
       /\ Len(updates) = 0 => ~isSurgeonAnimationComplete(a)
       /\ OnlyFullFrames(updates) /\ Len(updates) < 3 => ~isSurgeonAnimationComplete(a)
       /\ OnlyFullFrames(updates) /\ Len(updates) >= 3 => isSurgeonAnimationComplete(a)
  /\ a # NoAnimation /\ surgeonAnimations(a.key).loop => ~isSurgeonAnimationComplete(a)
  /\ getSurgeonFrame(a).index \in 0..(Len(getSurgeonFrame(a).frames) - 1)

\* C34: a non-looping surgeon animation is not complete right after
\* playSurgeonAnimation, is complete after three update(100) calls and stays
\* complete under further updates until another animation is played; the
\* looping idle animation is never complete; getSurgeonFrame always returns a
\* frame whose index is inside the sequence.
C34_SurgeonAnimationLifecycle ==
  [][/\ SurgeonLifecycle(activeSurgeonAnimation, sincePlay)
     /\ SurgeonLifecycle(activeSurgeonAnimation', sincePlay')
     /\ /\ lastOp'.op = "AnimationSystem.update"
        /\ activeSurgeonAnimation # NoAnimation
        /\ isSurgeonAnimationComplete(activeSurgeonAnimation)
        => /\ isSurgeonAnimationComplete(activeSurgeonAnimation')
           /\ activeSurgeonAnimation' = activeSurgeonAnimation]_vars

\* sew_stitches completed by three update(100) and left alone by a fourth
C34_Witness ==
  /\ activeSurgeonAnimation.key = "sew_stitches"
  /\ sincePlay = <<100, 100, 100, 100>>
  /\ activeSurgeonAnimation.isComplete
  /\ activeSurgeonAnimation.currentFrame = 2
  /\ getSurgeonFrame(activeSurgeonAnimation).index = 2

====
